---- MODULE Spec2Model ----
(***************************************************************************)
(* Model of boilingcore/output.go: the output stage of the code generator. *)
(* A buffer is a sequence of lines; a line is a record [text, syn] where   *)
(* text identifies the line and syn says how go/format sees it:            *)
(*   "fmt"   canonical source          "raw"  valid, not yet canonical     *)
(*   "bad"   syntax error on the line  "nopos" error without line:col      *)
(*   "open"  construct left open: the parser reports the error at EOF      *)
(* Strings that the code slices (template names, file names) are sequences *)
(* of one-character strings.                                               *)
(***************************************************************************)
EXTENDS Integers, Sequences, FiniteSets, TLC

VARIABLES
    templateByteBuffer, \* output.go:27, the process-wide buffer
    disk,               \* path -> bytes, what testHarnessWriteFile persisted
    call,               \* the last request and what it returned
    drv,                \* file name derivation under test
    diag,               \* formatBuffer under test
    procs,              \* concurrent assemblies: per process job and position
    overlapped,         \* TRUE once two assemblies were in progress together
    run                 \* the generation run: position and paths written

vars == <<templateByteBuffer, disk, call, drv, diag, procs, overlapped, run>>

\* -------------------------------------------------------------- bounds
MaxNameLen == 4
MaxLines == 13
MaxFaults == 1
MaxCols == 3
MaxRunTables == 2

\* ------------------------------------------------------------- strings
Digits == {"0", "1", "2", "3", "4", "5", "6", "7", "8", "9"}

DigitChar(d) ==
    CASE d = 0 -> "0" [] d = 1 -> "1" [] d = 2 -> "2" [] d = 3 -> "3"
      [] d = 4 -> "4" [] d = 5 -> "5" [] d = 6 -> "6" [] d = 7 -> "7"
      [] d = 8 -> "8" [] OTHER -> "9"

DigitVal(c) == CHOOSE d \in 0..9 : DigitChar(d) = c

RECURSIVE Itoa(_)
Itoa(n) == IF n < 10 THEN <<DigitChar(n)>>
           ELSE Itoa(n \div 10) \o <<DigitChar(n % 10)>>

RECURSIVE Atoi(_)
Atoi(s) == IF s = <<>> THEN 0
           ELSE 10 * Atoi(SubSeq(s, 1, Len(s) - 1)) + DigitVal(s[Len(s)])

RECURSIVE Spaces(_)
Spaces(n) == IF n <= 0 THEN <<>> ELSE <<" ">> \o Spaces(n - 1)

\* All sequences over S of length at most n.
RECURSIVE SeqsUpTo(_, _)
SeqsUpTo(S, n) ==
    IF n = 0 THEN {<<>>}
    ELSE LET shorter == SeqsUpTo(S, n - 1)
         IN  shorter \cup {Append(s, c) : s \in {t \in shorter : Len(t) = n - 1}, c \in S}

\* ---------------------------------------------- file name derivation
\* filepath.Ext: the suffix beginning at the final dot in the final element
\* of path; empty if there is no dot.
RECURSIVE ExtFrom(_, _)
ExtFrom(path, i) ==
    IF i < 1 \/ path[i] = "/" THEN <<>>
    ELSE IF path[i] = "." THEN SubSeq(path, i, Len(path))
    ELSE ExtFrom(path, i - 1)

filepathExt(path) == ExtFrom(path, Len(path))

\* Length of the leading run of digits of s.
RECURSIVE DigitRun(_, _)
DigitRun(s, i) ==
    IF i <= Len(s) /\ s[i] \in Digits THEN DigitRun(s, i + 1) ELSE i - 1

\* The pattern without its +: ^[0-9]_
RemoveOneDigitPrefix(s) ==
    IF Len(s) >= 2 /\ s[1] \in Digits /\ s[2] = "_"
    THEN SubSeq(s, 3, Len(s)) ELSE s

\* rgxRemoveNumberedPrefix.ReplaceAllString(s, ""): ^[0-9]+_
rgxRemoveNumberedPrefix(s) ==
    LET n == DigitRun(s, 1)
    IN  IF n >= 1 /\ n < Len(s) /\ s[n + 1] = "_"
        THEN SubSeq(s, n + 2, Len(s)) ELSE s

\* output.go:144-146
deriveName(tplName) ==
    LET ext == filepathExt(tplName)
    IN  rgxRemoveNumberedPrefix(SubSeq(tplName, 1, Len(tplName) - Len(ext)))

\* ------------------------------------------------------ lines, errors
Line(text, syn) == [text |-> text, syn |-> syn]

Blank == Line(<<"">>, "fmt")

NoErr == [kind |-> "nil"]

NoBytes == <<"no bytes">>

\* output.go:18-21: two comment lines and an empty line
noEditDisclaimer ==
    << Line(<<"// Code generated by SQLBoiler. DO NOT EDIT.">>, "fmt"),
       Line(<<"// This file is meant to be re-generated in place.">>, "fmt"),
       Blank >>

OutFolder == <<"o", "u", "t">>

\* filepath.Join(outFolder, fileName)
filepathJoin(folder, name) == folder \o <<"/">> \o name

\* ------------------------------------------------------- go/format
IsPackageLine(l) == l.text[1] = "package"
IsImportLine(l) == l.text[1] = "import"
IsDeclLine(l) == l.text[1] \in {"body", "partial", "line"}

\* A package clause after any code, or an import after a declaration.
Misplaced(b, i) ==
    \/ IsPackageLine(b[i]) /\ \E j \in 1..(i - 1) :
            IsPackageLine(b[j]) \/ IsImportLine(b[j]) \/ IsDeclLine(b[j])
    \/ IsImportLine(b[i]) /\ b[i].text[2] = "open"
                          /\ \E j \in 1..(i - 1) : IsDeclLine(b[j])

Offending(b) == {i \in 1..Len(b) : b[i].syn \in {"bad", "nopos"} \/ Misplaced(b, i)}

Min(S) == CHOOSE x \in S : \A y \in S : x <= y

\* format.Source(buf.Bytes()): the canonical bytes, or the parser's first
\* error: pos = TRUE when its message carries "line:col: ".
FormatSource(b) ==
    IF Offending(b) # {}
    THEN LET i == Min(Offending(b))
         IN  [ok |-> FALSE, out |-> NoBytes, pos |-> b[i].syn # "nopos", line |-> i]
    ELSE IF \E i \in 1..Len(b) : b[i].syn = "open"
    THEN [ok |-> FALSE, out |-> NoBytes, pos |-> TRUE, line |-> Len(b) + 1]
    ELSE [ok |-> TRUE, out |-> [i \in 1..Len(b) |-> Line(b[i].text, "fmt")],
          pos |-> FALSE, line |-> 0]

\* ---------------------------------------------------- formatBuffer
Window == 5
PadWidth == 4

\* fmt.Fprintf(errBuf, "% 4d ", line)
LineNumberPrefix(line) ==
    LET signed == <<" ">> \o Itoa(line)
    IN  Spaces(PadWidth - Len(signed)) \o signed \o <<" ">>

MarkPrefix == <<">", ">", ">", ">", " ">>

\* A window that loses its last line: delta >= 5 instead of delta > 5.
RECURSIVE ScanShortWindow(_, _, _)
ScanShortWindow(b, line, lineNum) ==
    IF line > Len(b) THEN <<>>
    ELSE LET delta == line - lineNum
             here  == IF delta < -Window \/ delta >= Window THEN <<>>
                      ELSE << [prefix |-> IF line = lineNum THEN MarkPrefix
                                          ELSE LineNumberPrefix(line),
                               line |-> b[line]] >>
         IN  here \o ScanShortWindow(b, line + 1, lineNum)

\* output.go:234-247: the scanner loop building errBuf
RECURSIVE ScanExcerpt(_, _, _)
ScanExcerpt(b, line, lineNum) ==
    IF line > Len(b) THEN <<>>
    ELSE LET delta == line - lineNum
             here  == IF delta < -Window \/ delta > Window THEN <<>>
                      ELSE << [prefix |-> IF line = lineNum THEN MarkPrefix
                                          ELSE LineNumberPrefix(line),
                               line |-> b[line]] >>
         IN  here \o ScanExcerpt(b, line + 1, lineNum)

\* output.go:220-250. buf is the buffer afterwards: the scanner reads it
\* to its end, which leaves it empty.
formatBuffer(b) ==
    LET f == FormatSource(b)
    IN  IF f.ok THEN [ok |-> TRUE, bytes |-> f.out, err |-> NoErr, buf |-> b]
        ELSE IF ~f.pos
        THEN [ok |-> FALSE, bytes |-> NoBytes, buf |-> b,
              err |-> [kind |-> "format", hasLine |-> FALSE, line |-> 0, excerpt |-> <<>>]]
        ELSE [ok |-> FALSE, bytes |-> NoBytes, buf |-> <<>>,
              err |-> [kind |-> "format", hasLine |-> TRUE, line |-> f.line,
                       excerpt |-> ScanExcerpt(b, 1, f.line)]]

\* A writeFile that persists the buffer as it is when formatting fails.
writeFileUnchecked(outFolder, fileName, input, refused, dsk) ==
    LET f    == formatBuffer(input)
        path == filepathJoin(outFolder, fileName)
        byt  == IF f.ok THEN f.bytes ELSE input
    IN  [err |-> NoErr, buf |-> f.buf, disk |-> (path :> byt) @@ dsk,
         writes |-> << [path |-> path, bytes |-> byt, raw |-> input] >>]

\* output.go:191-203. refused: testHarnessWriteFile returns an error and
\* leaves the file as it was.
writeFile(outFolder, fileName, input, refused, dsk) ==
    LET f    == formatBuffer(input)
        path == filepathJoin(outFolder, fileName)
    IN  IF ~f.ok THEN [err |-> f.err, buf |-> f.buf, disk |-> dsk, writes |-> <<>>]
        ELSE IF refused
        THEN [err |-> [kind |-> "write", path |-> path], buf |-> f.buf,
              disk |-> dsk, writes |-> <<>>]
        ELSE [err |-> NoErr, buf |-> f.buf, disk |-> (path :> f.bytes) @@ dsk,
              writes |-> << [path |-> path, bytes |-> f.bytes, raw |-> input] >>]

\* ------------------------------------------------ idle parts of the state
NoDisk == <<>>
IdleCall == [fn |-> "none", table |-> [IsJoinTable |-> FALSE], env |-> <<>>, writes |-> <<>>]
IdleDrv == [pc |-> "off"]
IdleDiag == [pc |-> "off"]
IdleProcs == <<>>
IdleRun == [pc |-> "off"]

\* ------------------------------------- specification: name derivation
NameAlphabet == {"1", "_", ".", "a", "/"}

ExHelpers == <<"0","1","_","h","e","l","p","e","r","s",".","t","m","p","l">>
ExFooBar == <<"9","9","_","f","o","o","_","b","a","r",".","t","m","p","l">>
ExNoHelp == <<"n","o","h","e","l","p",".","t","m","p","l">>

NameInputs == SeqsUpTo(NameAlphabet, MaxNameLen) \cup {ExHelpers, ExFooBar, ExNoHelp}

InitDerive ==
    /\ drv \in {[pc |-> "in", name |-> n, out |-> <<>>, again |-> <<>>] : n \in NameInputs}
    /\ templateByteBuffer = <<>>
    /\ disk = NoDisk
    /\ call = IdleCall
    /\ diag = IdleDiag
    /\ procs = IdleProcs
    /\ overlapped = FALSE
    /\ run = IdleRun

DeriveOnce ==
    /\ drv.pc = "in"
    /\ drv' = [drv EXCEPT !.pc = "once", !.out = deriveName(drv.name)]
    /\ UNCHANGED <<templateByteBuffer, disk, call, diag, procs, overlapped, run>>

DeriveAgain ==
    /\ drv.pc = "once"
    /\ drv' = [drv EXCEPT !.pc = "twice", !.again = deriveName(drv.out)]
    /\ UNCHANGED <<templateByteBuffer, disk, call, diag, procs, overlapped, run>>

NextDerive == DeriveOnce \/ DeriveAgain

SpecDerive == InitDerive /\ [][NextDerive]_vars

\* --------------------------------------- specification: formatBuffer
FaultKinds == {"bad", "nopos", "open"}

\* An n-line buffer whose line k (0: none) carries the fault.
FormatInput(n, k, kind) ==
    [i \in 1..n |-> Line(<<"line", i>>, IF i = k THEN kind ELSE "raw")]

\* The buffer of the documented case: the formatter reports line 42.
ExampleInput == FormatInput(50, 42, "bad")

FormatInputs ==
    {FormatInput(n, k, kind) : n \in 0..MaxLines, k \in 0..MaxLines, kind \in FaultKinds}
    \cup {ExampleInput}

DiagFile == <<"d", ".", "g", "o">>

InitFormat ==
    /\ templateByteBuffer \in FormatInputs
    /\ diag = [pc |-> "in"]
    /\ disk = NoDisk
    /\ call = IdleCall
    /\ drv = IdleDrv
    /\ procs = IdleProcs
    /\ overlapped = FALSE
    /\ run = IdleRun

WriteFileStep ==
    /\ diag.pc = "in"
    /\ LET r == writeFile(OutFolder, DiagFile, templateByteBuffer, FALSE, disk)
       IN  /\ diag' = [pc |-> "out", input |-> templateByteBuffer, err |-> r.err,
                       writes |-> r.writes]
           /\ templateByteBuffer' = r.buf
           /\ disk' = r.disk
    /\ UNCHANGED <<call, drv, procs, overlapped, run>>

NextFormat == WriteFileStep

SpecFormat == InitFormat /\ [][NextFormat]_vars

\* ------------------------------------------------------- import sets
EmptySet == [Standard |-> <<>>, ThirdParty |-> <<>>]

\* Lexicographic order of the import paths the configuration uses.
ImportOrder == <<"boil", "bytes", "fmt", "null", "strings", "testing", "time">>

ImportRank(x) == CHOOSE i \in 1..Len(ImportOrder) : ImportOrder[i] = x

RECURSIVE removeDuplicates(_)
removeDuplicates(l) ==
    IF l = <<>> THEN <<>>
    ELSE LET front == removeDuplicates(SubSeq(l, 1, Len(l) - 1))
             x     == l[Len(l)]
         IN  IF \E i \in 1..Len(front) : front[i] = x THEN front ELSE Append(front, x)

SortList(l) == SortSeq(l, LAMBDA a, b : ImportRank(a) < ImportRank(b))

\* m[k] of a Go map: the zero value when the key is absent.
MapGet(m, k) == IF k \in DOMAIN m THEN m[k] ELSE EmptySet

\* The imports registered for the column types, in column order.
RECURSIVE TypeImports(_, _, _)
TypeImports(b, colTypes, tier) ==
    IF colTypes = <<>> THEN <<>>
    ELSE MapGet(b, Head(colTypes))[tier] \o TypeImports(b, Tail(colTypes), tier)

\* importers.AddTypeImports: a new set, base plus the imports of every
\* column type, duplicates collapsed, each tier sorted.
AddTypeImports(a, b, colTypes) ==
    [Standard   |-> SortList(removeDuplicates(a.Standard \o TypeImports(b, colTypes, "Standard"))),
     ThirdParty |-> SortList(removeDuplicates(a.ThirdParty \o TypeImports(b, colTypes, "ThirdParty")))]

\* importers.Set.Format: nothing for an empty set, else one import block.
ImportsFormat(imps) ==
    IF imps.Standard = <<>> /\ imps.ThirdParty = <<>> THEN <<>>
    ELSE <<Line(<<"import", "open">>, "fmt")>>
         \o [i \in 1..Len(imps.Standard) |-> Line(<<"import", "std", imps.Standard[i]>>, "fmt")]
         \o [i \in 1..Len(imps.ThirdParty) |-> Line(<<"import", "3rd", imps.ThirdParty[i]>>, "fmt")]
         \o <<Line(<<"import", "close">>, "fmt")>>

\* ------------------------------------------------------ configuration
PkgName == "models"

ImportsAll == [Standard |-> <<"bytes", "strings">>, ThirdParty |-> <<"boil">>]
ImportsTest == [Standard |-> <<"testing">>, ThirdParty |-> <<>>]
ImportsBasedOnType ==
    [ty \in {"string", "time"} |->
        IF ty = "string" THEN [Standard |-> <<"strings">>, ThirdParty |-> <<>>]
        ELSE [Standard |-> <<"time">>, ThirdParty |-> <<"null">>]]
ImportsSingleton == (<<"a">> :> [Standard |-> <<"fmt">>, ThirdParty |-> <<>>])
ImportsTestSingleton == (<<"b">> :> [Standard |-> <<"testing">>, ThirdParty |-> <<>>])

Templates == << <<"m", ".", "t">>, <<"h", ".", "t">> >>
TestTemplates == << <<"m", "_", "t", ".", "t">> >>
SingletonTemplates == << <<"1", "_", "a", ".", "t">>, <<"b", ".", "t">>, <<"2", "_", "a", ".", "t">> >>
SingletonTestTemplates == << <<"b", ".", "t">> >>

SuffixGo == <<".", "g", "o">>
SuffixTestGo == <<"_", "t", "e", "s", "t", ".", "g", "o">>

Users == [Name |-> <<"u">>, IsJoinTable |-> FALSE, Columns |-> <<"int", "string", "string">>]
UserTags == [Name |-> <<"j">>, IsJoinTable |-> TRUE, Columns |-> <<"int", "time">>]
Tables == {Users, UserTags}

\* What a template does when executed: render valid source, render source
\* with a syntax error, return an error, or panic.
Outcomes == {"ok", "bad", "err", "panic"}

Range(f) == {f[i] : i \in DOMAIN f}

\* The behaviours of a template list in which at most MaxFaults templates
\* do anything but render valid source.
Behaviours(names) ==
    {bh \in [Range(names) -> Outcomes] :
        Cardinality({n \in Range(names) : bh[n] # "ok"}) <= MaxFaults}

AllOk(names) == [n \in Range(names) |-> "ok"]

\* --------------------------------------------------- buffer operations
\* out.Reset() left out.
ResetForgotten(b) == b

\* out.Reset(), output.go:103 and 142
Reset(b) == <<>>

\* output.go:171-173
writeFileDisclaimer(b) == b \o noEditDisclaimer

\* output.go:177-179: "package %s\n\n"
writePackageName(b, pkgName) == b \o <<Line(<<"package", pkgName>>, "fmt"), Blank>>

\* output.go:183-187
writeImports(b, imps) ==
    LET impStr == ImportsFormat(imps)
    IN  IF Len(impStr) > 0 THEN b \o impStr ELSE b

\* What a template renders for a table: one declaration.
Render(name, data, syn) == <<Line(<<"body", name, data.Table.Name>>, syn)>>

\* What a template has written when it stops on a fault.
RenderPartial(name, data) == <<Line(<<"partial", name, data.Table.Name>>, "raw")>>

\* An executeTemplate without the deferred recover: a panic leaves the call.
executeTemplateNoRecover(b, name, data, beh) ==
    CASE beh[name] = "ok"  -> [buf |-> b \o Render(name, data, "raw"), err |-> NoErr]
      [] beh[name] = "bad" -> [buf |-> b \o Render(name, data, "bad"), err |-> NoErr]
      [] beh[name] = "err" -> [buf |-> b \o RenderPartial(name, data),
                               err |-> [kind |-> "template", name |-> name, panic |-> FALSE]]
      [] OTHER             -> [buf |-> b \o RenderPartial(name, data),
                               err |-> [kind |-> "crash"]]

\* output.go:207-218: t.ExecuteTemplate appends to buf; an error is wrapped
\* with the template name, a panic is recovered into an error naming it.
executeTemplate(b, name, data, beh) ==
    CASE beh[name] = "ok"  -> [buf |-> b \o Render(name, data, "raw"), err |-> NoErr]
      [] beh[name] = "bad" -> [buf |-> b \o Render(name, data, "bad"), err |-> NoErr]
      [] beh[name] = "err" -> [buf |-> b \o RenderPartial(name, data),
                               err |-> [kind |-> "template", name |-> name, panic |-> FALSE]]
      [] OTHER             -> [buf |-> b \o RenderPartial(name, data),
                               err |-> [kind |-> "template", name |-> name, panic |-> TRUE]]

\* ------------------------------------------------- executeTemplates
\* Type imports added whatever combineImportsOnType says.
effectiveImportsAlways(e) ==
    AddTypeImports([Standard |-> e.importSet.Standard, ThirdParty |-> e.importSet.ThirdParty],
                   e.basedOnType, e.data.Table.Columns)

\* output.go:105-115
effectiveImports(e) ==
    LET imps == [Standard |-> e.importSet.Standard, ThirdParty |-> e.importSet.ThirdParty]
    IN  IF e.combineImportsOnType
        THEN AddTypeImports(imps, e.basedOnType, e.data.Table.Columns)
        ELSE imps

\* The join table check left out.
isJoinTableIgnored(e) == FALSE

\* output.go:98 and 136
isJoinTable(e) == e.data.Table.IsJoinTable

\* A loop that goes on after a template failed, keeping the first error.
RECURSIVE runTemplatesKeepGoing(_, _, _, _, _)
runTemplatesKeepGoing(b, names, i, data, beh) ==
    IF i > Len(names) THEN [buf |-> b, err |-> NoErr, executed |-> <<>>]
    ELSE LET r    == executeTemplate(b, names[i], data, beh)
             rest == runTemplatesKeepGoing(r.buf, names, i + 1, data, beh)
         IN  [buf |-> rest.buf, err |-> IF r.err # NoErr THEN r.err ELSE rest.err,
              executed |-> <<names[i]>> \o rest.executed]

\* output.go:121-125: the templates from the i-th on, in list order,
\* stopping at the first error.
RECURSIVE runTemplates(_, _, _, _, _)
runTemplates(b, names, i, data, beh) ==
    IF i > Len(names) THEN [buf |-> b, err |-> NoErr, executed |-> <<>>]
    ELSE LET r == executeTemplate(b, names[i], data, beh)
         IN  IF r.err # NoErr
             THEN [buf |-> r.buf, err |-> r.err, executed |-> <<names[i]>>]
             ELSE LET rest == runTemplates(r.buf, names, i + 1, data, beh)
                  IN  [buf |-> rest.buf, err |-> rest.err,
                       executed |-> <<names[i]>> \o rest.executed]

\* output.go:102-119 and 140-155: the reset buffer with the file header
assembleHeader(b, pkgName, imps) ==
    writeImports(writePackageName(writeFileDisclaimer(Reset(b)), pkgName), imps)

\* output.go:97-133. env: what the templates and the file system do.
executeTemplates(e, env, b, dsk) ==
    IF isJoinTable(e)
    THEN [buf |-> b, disk |-> dsk, err |-> NoErr, executed |-> <<>>, writes |-> <<>>,
          imps |-> EmptySet]
    ELSE LET imps == effectiveImports(e)
             out  == assembleHeader(b, e.pkgName, imps)
             t    == runTemplates(out, e.templates, 1, e.data, env.beh)
         IN  IF t.err # NoErr
             THEN [buf |-> t.buf, disk |-> dsk, err |-> t.err, executed |-> t.executed,
                   writes |-> <<>>, imps |-> imps]
             ELSE LET w == writeFile(e.outFolder, e.data.Table.Name \o e.fileSuffix,
                                     t.buf, env.refused, dsk)
                  IN  [buf |-> w.buf, disk |-> w.disk, err |-> w.err,
                       executed |-> t.executed, writes |-> w.writes, imps |-> imps]

\* ---------------------------------------- executeSingletonTemplates
\* A loop that goes on to the next template after one failed, keeping the
\* first error.
RECURSIVE singletonLoopKeepGoing(_, _, _, _, _)
singletonLoopKeepGoing(e, env, i, b, dsk) ==
    IF i > Len(e.templates)
    THEN [buf |-> b, disk |-> dsk, err |-> NoErr, executed |-> <<>>, writes |-> <<>>]
    ELSE LET tplName == e.templates[i]
             fName   == deriveName(tplName)
             out     == assembleHeader(b, e.pkgName, MapGet(e.importNamedSet, fName))
             t       == executeTemplate(out, tplName, e.data, env.beh)
             w       == IF t.err # NoErr
                        THEN [err |-> t.err, buf |-> t.buf, disk |-> dsk, writes |-> <<>>]
                        ELSE writeFile(e.outFolder, fName \o e.fileSuffix, t.buf,
                                       env.refused, dsk)
             rest    == singletonLoopKeepGoing(e, env, i + 1, w.buf, w.disk)
         IN  [buf |-> rest.buf, disk |-> rest.disk,
              err |-> IF w.err # NoErr THEN w.err ELSE rest.err,
              executed |-> <<tplName>> \o rest.executed,
              writes |-> w.writes \o rest.writes]

\* output.go:141-164: the loop from the i-th template on
RECURSIVE singletonLoop(_, _, _, _, _)
singletonLoop(e, env, i, b, dsk) ==
    IF i > Len(e.templates)
    THEN [buf |-> b, disk |-> dsk, err |-> NoErr, executed |-> <<>>, writes |-> <<>>]
    ELSE LET tplName == e.templates[i]
             fName   == deriveName(tplName)
             imps    == [Standard   |-> MapGet(e.importNamedSet, fName).Standard,
                         ThirdParty |-> MapGet(e.importNamedSet, fName).ThirdParty]
             out     == assembleHeader(b, e.pkgName, imps)
             t       == executeTemplate(out, tplName, e.data, env.beh)
         IN  IF t.err # NoErr
             THEN [buf |-> t.buf, disk |-> dsk, err |-> t.err, executed |-> <<tplName>>,
                   writes |-> <<>>]
             ELSE LET w == writeFile(e.outFolder, fName \o e.fileSuffix, t.buf,
                                     env.refused, dsk)
                  IN  IF w.err # NoErr
                      THEN [buf |-> w.buf, disk |-> w.disk, err |-> w.err,
                            executed |-> <<tplName>>, writes |-> w.writes]
                      ELSE LET rest == singletonLoop(e, env, i + 1, w.buf, w.disk)
                           IN  [buf |-> rest.buf, disk |-> rest.disk, err |-> rest.err,
                                executed |-> <<tplName>> \o rest.executed,
                                writes |-> w.writes \o rest.writes]

\* output.go:135-167
executeSingletonTemplates(e, env, b, dsk) ==
    IF isJoinTable(e)
    THEN [buf |-> b, disk |-> dsk, err |-> NoErr, executed |-> <<>>, writes |-> <<>>,
          imps |-> EmptySet]
    ELSE singletonLoop(e, env, 1, b, dsk) @@ [imps |-> EmptySet]

\* ------------------------------------------------- the four requests
\* output.go:36-45
generateOutput(data) ==
    [fn |-> "generateOutput", data |-> data, templates |-> Templates,
     importSet |-> ImportsAll, importNamedSet |-> <<>>, basedOnType |-> ImportsBasedOnType,
     combineImportsOnType |-> TRUE, fileSuffix |-> SuffixGo,
     pkgName |-> PkgName, outFolder |-> OutFolder]

\* output.go:48-57
generateTestOutput(data) ==
    [fn |-> "generateTestOutput", data |-> data, templates |-> TestTemplates,
     importSet |-> ImportsTest, importNamedSet |-> <<>>, basedOnType |-> ImportsBasedOnType,
     combineImportsOnType |-> FALSE, fileSuffix |-> SuffixTestGo,
     pkgName |-> PkgName, outFolder |-> OutFolder]

\* output.go:61-69
generateSingletonOutput(data) ==
    [fn |-> "generateSingletonOutput", data |-> data, templates |-> SingletonTemplates,
     importSet |-> EmptySet, importNamedSet |-> ImportsSingleton,
     basedOnType |-> ImportsBasedOnType,
     combineImportsOnType |-> FALSE, fileSuffix |-> SuffixGo,
     pkgName |-> PkgName, outFolder |-> OutFolder]

\* output.go:73-81
generateSingletonTestOutput(data) ==
    [fn |-> "generateSingletonTestOutput", data |-> data, templates |-> SingletonTestTemplates,
     importSet |-> EmptySet, importNamedSet |-> ImportsTestSingleton,
     basedOnType |-> ImportsBasedOnType,
     combineImportsOnType |-> FALSE, fileSuffix |-> SuffixGo,
     pkgName |-> PkgName, outFolder |-> OutFolder]

\* The request a call record stands for.
RequestOf(c) ==
    CASE c.fn = "generateOutput" -> generateOutput([Table |-> c.table])
      [] c.fn = "generateTestOutput" -> generateTestOutput([Table |-> c.table])
      [] c.fn = "generateSingletonOutput" -> generateSingletonOutput([Table |-> c.table])
      [] OTHER -> generateSingletonTestOutput([Table |-> c.table])

IsSingleton(e) == e.fn \in {"generateSingletonOutput", "generateSingletonTestOutput"}

Execute(e, env, b, dsk) ==
    IF IsSingleton(e) THEN executeSingletonTemplates(e, env, b, dsk)
    ELSE executeTemplates(e, env, b, dsk)

\* What the templates and the file system may do during a request. A request
\* for a join table consults neither.
Environments(e) ==
    IF e.data.Table.IsJoinTable THEN {[beh |-> AllOk(e.templates), refused |-> FALSE]}
    ELSE {[beh |-> bh, refused |-> rf] : bh \in Behaviours(e.templates), rf \in BOOLEAN}

\* One request served from start to return. call records the request, what it
\* returned, and whether it repeats the request before it, which wrote (again).
Serve(e, env) ==
    \E r \in {Execute(e, env, templateByteBuffer, disk)} :
        /\ templateByteBuffer' = r.buf
        /\ disk' = r.disk
        /\ call' = [fn |-> e.fn, table |-> e.data.Table, env |-> env, err |-> r.err,
                    executed |-> r.executed, writes |-> r.writes, imps |-> r.imps,
                    again |-> /\ call.fn = e.fn
                              /\ call.table = e.data.Table
                              /\ call.env = env
                              /\ call.writes # <<>>]

\* ------------------------------------ specification: sequential requests
Init ==
    /\ templateByteBuffer = <<>>
    /\ disk = NoDisk
    /\ call = IdleCall
    /\ drv = IdleDrv
    /\ diag = IdleDiag
    /\ procs = IdleProcs
    /\ overlapped = FALSE
    /\ run = IdleRun

GenerateOutput ==
    /\ \E t \in Tables : \E env \in Environments(generateOutput([Table |-> t])) :
            Serve(generateOutput([Table |-> t]), env)
    /\ UNCHANGED <<drv, diag, procs, overlapped, run>>

GenerateTestOutput ==
    /\ \E t \in Tables : \E env \in Environments(generateTestOutput([Table |-> t])) :
            Serve(generateTestOutput([Table |-> t]), env)
    /\ UNCHANGED <<drv, diag, procs, overlapped, run>>

GenerateSingletonOutput ==
    /\ \E t \in Tables : \E env \in Environments(generateSingletonOutput([Table |-> t])) :
            Serve(generateSingletonOutput([Table |-> t]), env)
    /\ UNCHANGED <<drv, diag, procs, overlapped, run>>

GenerateSingletonTestOutput ==
    /\ \E t \in Tables : \E env \in Environments(generateSingletonTestOutput([Table |-> t])) :
            Serve(generateSingletonTestOutput([Table |-> t]), env)
    /\ UNCHANGED <<drv, diag, procs, overlapped, run>>

Next ==
    \/ GenerateOutput
    \/ GenerateTestOutput
    \/ GenerateSingletonOutput
    \/ GenerateSingletonTestOutput

Spec == Init /\ [][Next]_vars

\* --------------------------------- specification: column types and imports
ColTypes == {"int", "string", "time"}

Entity(cols) == [Name |-> <<"u">>, IsJoinTable |-> FALSE, Columns |-> cols]

QuietEnv(e) == [beh |-> AllOk(e.templates), refused |-> FALSE]

ImportsGenerateOutput ==
    /\ \E cols \in SeqsUpTo(ColTypes, MaxCols) :
            Serve(generateOutput([Table |-> Entity(cols)]),
                  QuietEnv(generateOutput([Table |-> Entity(cols)])))
    /\ UNCHANGED <<drv, diag, procs, overlapped, run>>

ImportsGenerateTestOutput ==
    /\ \E cols \in SeqsUpTo(ColTypes, MaxCols) :
            Serve(generateTestOutput([Table |-> Entity(cols)]),
                  QuietEnv(generateTestOutput([Table |-> Entity(cols)])))
    /\ UNCHANGED <<drv, diag, procs, overlapped, run>>

NextImports == ImportsGenerateOutput \/ ImportsGenerateTestOutput

SpecImports == Init /\ [][NextImports]_vars

\* ------------------------------------------ specification: a generation run
\* The driver serves the singleton templates, the singleton test templates, and
\* then each table's output and test output, and stops at the first error.
NoTable == [Name |-> <<>>, IsJoinTable |-> FALSE, Columns |-> <<>>]

Events == [Name |-> <<"e">>, IsJoinTable |-> FALSE, Columns |-> <<"time">>]

RunEntities == {Users, Events, UserTags}

InitRun ==
    /\ run \in {[pc |-> "singleton", tables |-> ts, t |-> 1, written |-> <<>>] :
                    ts \in SeqsUpTo(RunEntities, MaxRunTables)}
    /\ templateByteBuffer = <<>>
    /\ disk = NoDisk
    /\ call = IdleCall
    /\ drv = IdleDrv
    /\ diag = IdleDiag
    /\ procs = IdleProcs
    /\ overlapped = FALSE

\* How often each path has been written in the run, after the writes ws.
RECURSIVE Counted(_, _)
Counted(written, ws) ==
    IF ws = <<>> THEN written
    ELSE LET p == Head(ws).path
             n == IF p \in DOMAIN written THEN written[p] ELSE 0
         IN  Counted((p :> (n + 1)) @@ written, Tail(ws))

RunStep(e, next, t) ==
    /\ \E env \in Environments(e) : Serve(e, env)
    /\ run' = [run EXCEPT !.pc = IF call'.err # NoErr THEN "failed" ELSE next,
                          !.t = t,
                          !.written = Counted(run.written, call'.writes)]
    /\ UNCHANGED <<drv, diag, procs, overlapped>>

AfterTable(t) == IF t > Len(run.tables) THEN "done" ELSE "output"

RunSingletons ==
    /\ run.pc = "singleton"
    /\ RunStep(generateSingletonOutput([Table |-> NoTable]), "singletonTest", 1)

RunSingletonTests ==
    /\ run.pc = "singletonTest"
    /\ RunStep(generateSingletonTestOutput([Table |-> NoTable]), AfterTable(1), 1)

RunOutput ==
    /\ run.pc = "output"
    /\ RunStep(generateOutput([Table |-> run.tables[run.t]]), "testOutput", run.t)

RunTestOutput ==
    /\ run.pc = "testOutput"
    /\ RunStep(generateTestOutput([Table |-> run.tables[run.t]]),
               AfterTable(run.t + 1), run.t + 1)

NextRun == RunSingletons \/ RunSingletonTests \/ RunOutput \/ RunTestOutput

SpecRun == InitRun /\ [][NextRun]_vars

\* ------------------------------- specification: assemblies run in parallel
\* Two requests run as processes on the one templateByteBuffer, a step at a
\* time: the buffer reset, each header write, each template execution and the
\* format-and-write are steps that may interleave. Templates render valid
\* source and writes are not refused.
Procs == {1, 2}

ConcRequests ==
    {generateOutput([Table |-> Users]), generateTestOutput([Table |-> Users]),
     generateSingletonTestOutput([Table |-> NoTable]), generateOutput([Table |-> UserTags])}

Proc(e) ==
    [fn |-> e.fn, table |-> e.data.Table, env |-> QuietEnv(e), pc |-> "call", i |-> 1,
     imps |-> EmptySet, err |-> NoErr, executed |-> <<>>, writes |-> <<>>]

InAssembly(pr) == pr.pc \notin {"call", "done"}

InitConc ==
    /\ procs \in [Procs -> {Proc(e) : e \in ConcRequests}]
    /\ overlapped = FALSE
    /\ templateByteBuffer = <<>>
    /\ disk = NoDisk
    /\ call = IdleCall
    /\ drv = IdleDrv
    /\ diag = IdleDiag
    /\ run = IdleRun

\* Process p moves to pr; overlapped records both processes being inside an
\* assembly at once.
Move(p, pr) ==
    /\ procs' = [procs EXCEPT ![p] = pr]
    /\ overlapped' = (overlapped \/ (InAssembly(pr) /\ \E q \in Procs \ {p} : InAssembly(procs[q])))
    /\ UNCHANGED <<call, drv, diag, run>>

\* output.go:98-100 and 136-138
ConcCall(p) ==
    /\ procs[p].pc = "call"
    /\ Move(p, [procs[p] EXCEPT !.pc = IF isJoinTable(RequestOf(procs[p])) THEN "done" ELSE "reset"])
    /\ UNCHANGED <<templateByteBuffer, disk>>

\* output.go:103 and 142
ConcReset(p) ==
    /\ procs[p].pc = "reset"
    /\ templateByteBuffer' = Reset(templateByteBuffer)
    /\ Move(p, [procs[p] EXCEPT !.pc = "disclaimer"])
    /\ UNCHANGED disk

\* output.go:117 and 153
ConcDisclaimer(p) ==
    /\ procs[p].pc = "disclaimer"
    /\ templateByteBuffer' = writeFileDisclaimer(templateByteBuffer)
    /\ Move(p, [procs[p] EXCEPT !.pc = "package"])
    /\ UNCHANGED disk

\* output.go:118 and 154
ConcPackage(p) ==
    /\ procs[p].pc = "package"
    /\ templateByteBuffer' = writePackageName(templateByteBuffer, RequestOf(procs[p]).pkgName)
    /\ Move(p, [procs[p] EXCEPT !.pc = "imports"])
    /\ UNCHANGED disk

\* output.go:105-115, 119 and 148-155
ConcImports(p) ==
    /\ procs[p].pc = "imports"
    /\ LET e    == RequestOf(procs[p])
           imps == IF IsSingleton(e)
                   THEN MapGet(e.importNamedSet, deriveName(e.templates[procs[p].i]))
                   ELSE effectiveImports(e)
       IN  /\ templateByteBuffer' = writeImports(templateByteBuffer, imps)
           /\ Move(p, [procs[p] EXCEPT !.pc = "execute",
                                       !.imps = IF IsSingleton(e) THEN EmptySet ELSE imps])
    /\ UNCHANGED disk

\* output.go:121-125 and 157-159
ConcExecute(p) ==
    /\ procs[p].pc = "execute"
    /\ LET pr == procs[p]
           e  == RequestOf(pr)
       IN  \E r \in {executeTemplate(templateByteBuffer, e.templates[pr.i], e.data, pr.env.beh)} :
               /\ templateByteBuffer' = r.buf
               /\ Move(p, [pr EXCEPT !.executed = Append(pr.executed, e.templates[pr.i]),
                                     !.err = r.err,
                                     !.i = IF r.err = NoErr /\ ~IsSingleton(e) /\ pr.i < Len(e.templates)
                                           THEN pr.i + 1 ELSE pr.i,
                                     !.pc = IF r.err # NoErr THEN "done"
                                            ELSE IF ~IsSingleton(e) /\ pr.i < Len(e.templates)
                                            THEN "execute" ELSE "write"])
    /\ UNCHANGED disk

\* output.go:127-130 and 161-163
ConcWrite(p) ==
    /\ procs[p].pc = "write"
    /\ LET pr    == procs[p]
           e     == RequestOf(pr)
           fName == IF IsSingleton(e) THEN deriveName(e.templates[pr.i]) ELSE e.data.Table.Name
           more  == IsSingleton(e) /\ pr.i < Len(e.templates)
       IN  \E w \in {writeFile(e.outFolder, fName \o e.fileSuffix, templateByteBuffer,
                               pr.env.refused, disk)} :
               /\ templateByteBuffer' = w.buf
               /\ disk' = w.disk
               /\ Move(p, [pr EXCEPT !.writes = pr.writes \o w.writes,
                                     !.err = w.err,
                                     !.i = IF w.err = NoErr /\ more THEN pr.i + 1 ELSE pr.i,
                                     !.pc = IF w.err = NoErr /\ more THEN "reset" ELSE "done"])

NextConc ==
    \E p \in Procs :
        \/ ConcCall(p)
        \/ ConcReset(p)
        \/ ConcDisclaimer(p)
        \/ ConcPackage(p)
        \/ ConcImports(p)
        \/ ConcExecute(p)
        \/ ConcWrite(p)

SpecConc == InitConc /\ [][NextConc]_vars

\* ------------------------------------------------ what a file should hold
HeaderOf(pkgName, imps) ==
    noEditDisclaimer \o <<Line(<<"package", pkgName>>, "fmt"), Blank>> \o ImportsFormat(imps)

BodyLine(name, table) == Line(<<"body", name, table.Name>>, "raw")

\* The raw source of an entity's file: the header and every template's body.
EntitySource(e, imps) ==
    HeaderOf(e.pkgName, imps)
    \o [i \in 1..Len(e.templates) |-> BodyLine(e.templates[i], e.data.Table)]

\* The raw source of a singleton template's file.
SingletonSource(e, tplName) ==
    HeaderOf(e.pkgName, MapGet(e.importNamedSet, deriveName(tplName)))
    \o <<BodyLine(tplName, e.data.Table)>>

Canonical(src) == [i \in 1..Len(src) |-> Line(src[i].text, "fmt")]

EntityPath(e) == OutFolder \o <<"/">> \o e.data.Table.Name \o e.fileSuffix

SingletonPath(e, tplName) == OutFolder \o <<"/">> \o deriveName(tplName) \o e.fileSuffix

\* The templates of the list whose body is in the raw source of a write.
BodiesIn(e, raw) ==
    {n \in Range(e.templates) : \E i \in 1..Len(raw) : raw[i] = BodyLine(n, e.data.Table)}

HasPartial(raw) == \E i \in 1..Len(raw) : raw[i].text[1] = "partial"

Faulty(e, env) == {i \in 1..Len(e.templates) : env.beh[e.templates[i]] \in {"err", "panic"}}

NotOk(e, env) == {i \in 1..Len(e.templates) : env.beh[e.templates[i]] # "ok"}

\* ------------------------------------------------------------- claims
\* C1: a file is written only after every template of its assembly executed
\* without error and formatBuffer succeeded on the whole buffer, and the bytes
\* written are the formatter's output, never the raw or a partly rendered
\* buffer; when a template or the formatting of a file fails, that file is not
\* written and the error is returned.
C1_AllOrNothing ==
    call.fn # "none" =>
        LET e == RequestOf(call)
        IN  /\ \A k \in DOMAIN call.writes :
                  LET w == call.writes[k]
                  IN  /\ FormatSource(w.raw).ok
                      /\ w.bytes = FormatSource(w.raw).out
                      /\ w.bytes # w.raw
                      /\ ~HasPartial(w.raw)
                      /\ \A n \in BodiesIn(e, w.raw) : call.env.beh[n] = "ok"
                      /\ BodiesIn(e, w.raw) =
                            IF IsSingleton(e) THEN {call.executed[k]} ELSE Range(e.templates)
            /\ \A i \in 1..Len(call.executed) :
                  call.env.beh[call.executed[i]] # "ok" =>
                      /\ call.err # NoErr
                      /\ \A k \in DOMAIN call.writes :
                            call.executed[i] \notin BodiesIn(e, call.writes[k].raw)

C1_Witness ==
    /\ call.fn = "generateOutput"
    /\ call.env.beh[Templates[2]] = "bad"
    /\ call.err.kind = "format"
    /\ call.writes = <<>>
    /\ DOMAIN disk # {}

\* C2: a request for an entity whose IsJoinTable flag is set writes no file,
\* executes no template, leaves the shared buffer as it was and returns no
\* error.
C2_JoinTableNoOp ==
    [][ (call'.fn # "none" /\ call'.table.IsJoinTable) =>
            /\ templateByteBuffer' = templateByteBuffer
            /\ disk' = disk
            /\ call'.err = NoErr
            /\ call'.executed = <<>>
            /\ call'.writes = <<>> ]_vars

C2_Witness ==
    /\ call.fn = "generateSingletonOutput"
    /\ call.table.IsJoinTable
    /\ templateByteBuffer # <<>>
    /\ DOMAIN disk # {}

\* C3: per-entity assembly executes the templates in list order; a fault in
\* template k, an error or a panic, becomes an error value naming template k,
\* no template after k is executed, no file is written, and the error is
\* returned.
C3_FaultAborts ==
    (call.fn \in {"generateOutput", "generateTestOutput"} /\ ~call.table.IsJoinTable) =>
        LET e == RequestOf(call)
            faulty == Faulty(e, call.env)
        IN  IF faulty = {} THEN call.executed = e.templates
            ELSE LET k == Min(faulty)
                 IN  /\ call.executed = SubSeq(e.templates, 1, k)
                     /\ call.err = [kind |-> "template", name |-> e.templates[k],
                                    panic |-> call.env.beh[e.templates[k]] = "panic"]
                     /\ call.writes = <<>>

C3_Witness ==
    /\ call.fn = "generateOutput"
    /\ call.env.beh[Templates[1]] = "panic"
    /\ call.executed = <<Templates[1]>>
    /\ call.err.kind = "template"
    /\ call.err.panic

\* The write of singleton template j: its own path, header and body.
WrittenOwn(e, j, w) ==
    /\ w.path = SingletonPath(e, e.templates[j])
    /\ w.bytes = Canonical(SingletonSource(e, e.templates[j]))

\* A singleton request in which template i alone faults and nothing else fails.
OnlyFault(c, i) ==
    /\ c.fn \in {"generateSingletonOutput", "generateSingletonTestOutput"}
    /\ ~c.table.IsJoinTable
    /\ ~c.env.refused
    /\ Faulty(RequestOf(c), c.env) = {i}
    /\ NotOk(RequestOf(c), c.env) = {i}

\* C4 as claimed: when singleton template i alone faults, every other template
\* j, before or after i in the list, has had its file written with its own
\* header and body.
C4_Original ==
    \A i \in 1..Len(SingletonTemplates) :
        OnlyFault(call, i) =>
            \A j \in 1..Len(RequestOf(call).templates) :
                j # i => \E k \in DOMAIN call.writes : WrittenOwn(RequestOf(call), j, call.writes[k])

\* C4 as amended: when singleton template i alone faults, every template j
\* before i in the list has had its file written with its own header and body;
\* the loop stops at i, so no template after i is executed and none of their
\* files is written by the request, which returns the error naming i.
C4_Amended ==
    \A i \in 1..Len(SingletonTemplates) :
        OnlyFault(call, i) =>
            LET e == RequestOf(call)
            IN  /\ call.executed = SubSeq(e.templates, 1, i)
                /\ Len(call.writes) = i - 1
                /\ \A j \in 1..(i - 1) : WrittenOwn(e, j, call.writes[j])
                /\ \A j \in (i + 1)..Len(e.templates) :
                      \A k \in DOMAIN call.writes :
                          e.templates[j] \notin BodiesIn(e, call.writes[k].raw)
                /\ call.err.kind = "template"
                /\ call.err.name = e.templates[i]

C4_Witness ==
    /\ OnlyFault(call, 2)
    /\ call.fn = "generateSingletonOutput"
    /\ Len(call.writes) = 1
    /\ DOMAIN disk = {call.writes[1].path}

\* The bytes the k-th write of a call should hold, from the call's inputs alone.
ExpectedWrite(c, k) ==
    LET e == RequestOf(c)
    IN  IF IsSingleton(e)
        THEN [path |-> SingletonPath(e, e.templates[k]),
              bytes |-> Canonical(SingletonSource(e, e.templates[k]))]
        ELSE [path |-> EntityPath(e), bytes |-> Canonical(EntitySource(e, c.imps))]

LastWriteTo(c, p) ==
    c.writes[CHOOSE k \in DOMAIN c.writes :
                /\ c.writes[k].path = p
                /\ \A m \in DOMAIN c.writes : c.writes[m].path = p => m <= k]

Succeeds(c) ==
    /\ ~c.table.IsJoinTable
    /\ ~c.env.refused
    /\ NotOk(RequestOf(c), c.env) = {}

\* C7: whatever earlier assemblies left in the shared buffer, the bytes an
\* assembly writes are those its own inputs determine; each write replaces the
\* file's content; and the same request with the same template output served
\* twice in succession writes the same bytes to the same paths.
C7_Regeneration ==
    [][ call'.fn # "none" =>
            /\ \A k \in DOMAIN call'.writes :
                  /\ call'.writes[k].path = ExpectedWrite(call', k).path
                  /\ call'.writes[k].bytes = ExpectedWrite(call', k).bytes
            /\ Succeeds(call') =>
                  Len(call'.writes) = IF IsSingleton(RequestOf(call'))
                                      THEN Len(RequestOf(call').templates) ELSE 1
            /\ \A p \in DOMAIN disk' :
                  IF \E k \in DOMAIN call'.writes : call'.writes[k].path = p
                  THEN disk'[p] = LastWriteTo(call', p).bytes
                  ELSE p \in DOMAIN disk /\ disk'[p] = disk[p]
            /\ call'.again => (call'.writes = call.writes /\ disk' = disk) ]_vars

C7_Witness ==
    /\ call.fn = "generateOutput"
    /\ call.again
    /\ call.writes # <<>>

\* s begins with a run of digits followed by an underscore.
HasNumberedPrefix(s) ==
    \E n \in 1..(Len(s) - 1) : s[n + 1] = "_" /\ \A i \in 1..n : s[i] \in Digits

\* The last path element of s holds a dot.
HasExtension(s) ==
    \E i \in 1..Len(s) : s[i] = "." /\ \A j \in i..Len(s) : s[j] # "/"

DerivesExamples ==
    drv.pc \in {"once", "twice"} =>
        /\ drv.name = ExHelpers => drv.out = <<"h", "e", "l", "p", "e", "r", "s">>
        /\ drv.name = ExFooBar => drv.out = <<"f", "o", "o", "_", "b", "a", "r">>
        /\ drv.name = ExNoHelp => drv.out = <<"n", "o", "h", "e", "l", "p">>

\* C5 as claimed: deriving the file name of a derived name gives the derived
\* name again, for every template identifier, and the three documented
\* identifiers derive "helpers", "foo_bar" and "nohelp".
C5_Original ==
    /\ DerivesExamples
    /\ drv.pc = "twice" => drv.again = drv.out

\* C5 as amended: the three documented identifiers derive "helpers", "foo_bar"
\* and "nohelp"; deriving again gives the derived name again exactly when the
\* derived name has no extension left and no digits-and-underscore prefix left
\* (one extension and one prefix are stripped, so "a.b.tmpl" derives "a.b" and
\* then "a").
C5_Amended ==
    /\ DerivesExamples
    /\ drv.pc = "twice" =>
          (drv.again = drv.out <=> (~HasExtension(drv.out) /\ ~HasNumberedPrefix(drv.out)))

C5_Witness ==
    /\ drv.pc = "twice"
    /\ drv.name = ExHelpers
    /\ drv.out = <<"h", "e", "l", "p", "e", "r", "s">>
    /\ drv.again = drv.out

\* prefix is the decimal number n right-aligned in four columns, then a space.
RightAligned(prefix, n) ==
    LET body == SubSeq(prefix, 1, Len(prefix) - 1)
    IN  /\ Len(prefix) >= 5
        /\ prefix[Len(prefix)] = " "
        /\ \E k \in 1..(Len(body) - 1) :
              /\ \A j \in 1..k : body[j] = " "
              /\ \A j \in (k + 1)..Len(body) : body[j] \in Digits
              /\ Atoi(SubSeq(body, k + 1, Len(body))) = n
              /\ Len(body) > 4 => k = 1

C8_WriteOnce ==
    run.pc # "off" => \A p \in DOMAIN run.written : run.written[p] <= 1

Elems(l) == {l[i] : i \in 1..Len(l)}

\* C10: with type-based augmentation (normal output) the effective import set
\* is the base set plus every import registered for a column type present on
\* the entity, each exactly once however many columns share the type and even
\* if the base set holds it already; without it (test output) the effective
\* set is the base set.
C10_Imports ==
    (call.fn \in {"generateOutput", "generateTestOutput"} /\ ~call.table.IsJoinTable) =>
        \A tier \in {"Standard", "ThirdParty"} :
            LET got   == call.imps[tier]
                types == Elems(call.table.Columns)
                extra == UNION {Elems(MapGet(ImportsBasedOnType, ty)[tier]) : ty \in types}
            IN  IF call.fn = "generateOutput"
                THEN /\ Elems(got) = Elems(ImportsAll[tier]) \cup extra
                     /\ Cardinality(Elems(got)) = Len(got)
                     /\ \A k \in DOMAIN call.writes : \A x \in Elems(got) :
                           Cardinality({i \in 1..Len(call.writes[k].raw) :
                               /\ call.writes[k].raw[i].text[1] = "import"
                               /\ call.writes[k].raw[i].text[Len(call.writes[k].raw[i].text)] = x}) = 1
                ELSE got = ImportsTest[tier]

C10_Witness ==
    /\ call.fn = "generateOutput"
    /\ call.table.Columns = <<"string", "time", "string">>
    /\ call.imps = [Standard |-> <<"bytes", "strings", "time">>, ThirdParty |-> <<"boil", "null">>]
    /\ call.writes # <<>>

\* The writes of process p are those its request alone determines.
OwnContent(p) ==
    \A k \in DOMAIN procs[p].writes :
        /\ procs[p].writes[k].path = ExpectedWrite(procs[p], k).path
        /\ procs[p].writes[k].bytes = ExpectedWrite(procs[p], k).bytes

\* C9: when the assemblies run strictly one after another, every file written
\* holds what its own assembly alone produces and every assembly completes;
\* run in parallel on the shared buffer, some interleaving of their steps
\* writes a file whose content is not its own assembly's (the witness).
C9_SequentialIsSafe ==
    ~overlapped =>
        \A p \in Procs :
            /\ OwnContent(p)
            /\ procs[p].pc = "done" =>
                  /\ procs[p].err = NoErr
                  /\ Len(procs[p].writes) =
                        IF procs[p].table.IsJoinTable THEN 0
                        ELSE IF IsSingleton(RequestOf(procs[p]))
                        THEN Len(RequestOf(procs[p]).templates) ELSE 1

C9_Witness ==
    /\ overlapped
    /\ \E p \in Procs : ~OwnContent(p)

====
